---- MODULE Spec2Model ----
(***************************************************************************)
(* Model of the theme / background-effect / zoom manager of perceive-ui    *)
(* (classes WavesEffect, ThemeAccentProperty, Theme, LightTheme,           *)
(* DarkTheme and AppTheme).                                                *)
(*                                                                         *)
(* JavaScript values are represented as follows.                           *)
(*  - A string of characters is a sequence of one-character strings.       *)
(*  - An integer-valued Number used as a hue is [nan, m, e], standing for  *)
(*    m * 10^e (NaN when nan is TRUE).                                     *)
(*  - An IEEE-754 double close to a multiple of one tenth (zoom factor,    *)
(*    opacity) is [nan, k, d], standing for (k * 2^55 + d) / (10 * 2^55):  *)
(*    k counts tenths, d is the distance from the exact tenth in units of  *)
(*    2^-55 / 10.  Sums are exact on this representation and are then      *)
(*    rounded to the 53-bit grid of the result, ties to even.              *)
(***************************************************************************)
EXTENDS Integers, Sequences, FiniteSets

----------------------------------------------------------------------------
(* IEEE-754 binary64 arithmetic on numbers near multiples of 0.1 *)

\* binary exponents of the doubles the model computes with: 1/16 <= x < 32
BinExps == (0 - 4)..4

RECURSIVE Pow2(_)
Pow2(n) == IF n = 0 THEN 1 ELSE 2 * Pow2(n - 1)

\* 2^n mod 5
Pow2Mod5(n) == <<1, 2, 4, 3>>[(n % 4) + 1]

DNaN == [nan |-> TRUE, k |-> 0, d |-> 0]

Dbl(k, d) == [nan |-> FALSE, k |-> k, d |-> d]

\* (k, d) >= 2^e, for k >= 1
GEPow2(k, d, e) ==
  IF e >= 0
    THEN k > 10 * Pow2(e) \/ (k = 10 * Pow2(e) /\ d >= 0)
    ELSE k * Pow2(0 - e) > 10 \/ (k * Pow2(0 - e) = 10 /\ d >= 0)

\* the binary exponent e with 2^e <= x < 2^(e+1)
BinExp(k, d) ==
  CHOOSE e \in BinExps : GEPow2(k, d, e) /\ ~GEPow2(k, d, e + 1)

\* round the exact value (k, d) to the nearest double, ties to even
RECURSIVE RoundDbl(_, _)
RoundDbl(k, d) ==
  IF k = 0 THEN Dbl(0, d)
  ELSE IF k < 0 THEN Dbl(0 - RoundDbl(0 - k, 0 - d).k, 0 - RoundDbl(0 - k, 0 - d).d)
  ELSE
    LET e    == BinExp(k, d)
        G    == 5 * Pow2(e + 4)
        R2   == (k * Pow2(e + 5) * Pow2Mod5(50 - e) + d) % (2 * G)
        r    == R2 % G
        qodd == R2 >= G
        up   == (2 * r > G) \/ (2 * r = G /\ qodd)
    IN IF r = 0 THEN Dbl(k, d)
       ELSE IF up THEN Dbl(k, d + (G - r))
       ELSE Dbl(k, d - r)

\* the double nearest to k / 10 (what a decimal literal or string denotes)
DFromTenths(k) == RoundDbl(k, 0)

DAdd(a, b) == IF a.nan \/ b.nan THEN DNaN ELSE RoundDbl(a.k + b.k, a.d + b.d)

DSub(a, b) == IF a.nan \/ b.nan THEN DNaN ELSE RoundDbl(a.k - b.k, a.d - b.d)

\* a < b, false when either is NaN
DLess(a, b) == ~a.nan /\ ~b.nan /\ (a.k < b.k \/ (a.k = b.k /\ a.d < b.d))

----------------------------------------------------------------------------
(* Strings and Number <-> String conversions *)

Digit == <<"0", "1", "2", "3", "4", "5", "6", "7", "8", "9">>

DigitChars == {Digit[i] : i \in 1..10}

DigitVal(c) == CHOOSE v \in 0..9 : Digit[v + 1] = c

NumNaN == [nan |-> TRUE, m |-> 0, e |-> 0]

\* the integer m * 10^e, with m carrying no trailing zero
RECURSIVE Num(_, _)
Num(m, e) ==
  IF m = 0 THEN [nan |-> FALSE, m |-> 0, e |-> 0]
  ELSE IF m % 10 = 0 THEN Num(m \div 10, e + 1)
  ELSE [nan |-> FALSE, m |-> m, e |-> e]

\* decimal digits of a natural number
RECURSIVE DecDigits(_)
DecDigits(n) ==
  IF n < 10 THEN <<Digit[n + 1]>>
  ELSE DecDigits(n \div 10) \o <<Digit[(n % 10) + 1]>>

Zeros(n) == [i \in 1..n |-> "0"]

\* Number::toString(x) in radix 10 for an integer-valued Number: plain
\* digits while the integer has at most MaxPlainDigits digits, exponent
\* notation beyond
MaxPlainDigits == 21

RECURSIVE NumberToString(_)
NumberToString(x) ==
  IF x.nan THEN <<"N", "a", "N">>
  ELSE IF x.m = 0 THEN <<"0">>
  ELSE IF x.m < 0
    THEN <<"-">> \o NumberToString([nan |-> FALSE, m |-> 0 - x.m, e |-> x.e])
  ELSE
    LET s == DecDigits(x.m)
        k == Len(s)
        n == k + x.e
    IN IF n <= MaxPlainDigits THEN s \o Zeros(n - k)
       ELSE IF k = 1 THEN s \o <<"e", "+">> \o DecDigits(n - 1)
       ELSE <<Head(s), ".">> \o Tail(s) \o <<"e", "+">> \o DecDigits(n - 1)

\* longest prefix of decimal digits
RECURSIVE DigitPrefix(_)
DigitPrefix(s) ==
  IF s = <<>> \/ Head(s) \notin DigitChars THEN <<>>
  ELSE <<Head(s)>> \o DigitPrefix(Tail(s))

RECURSIVE TrimLeft(_)
TrimLeft(s) == IF s # <<>> /\ Head(s) = " " THEN TrimLeft(Tail(s)) ELSE s

RECURSIVE TrailingZeros(_)
TrailingZeros(z) ==
  IF z # <<>> /\ z[Len(z)] = "0"
    THEN 1 + TrailingZeros(SubSeq(z, 1, Len(z) - 1))
    ELSE 0

RECURSIVE DigitsValue(_)
DigitsValue(z) ==
  IF z = <<>> THEN 0
  ELSE 10 * DigitsValue(SubSeq(z, 1, Len(z) - 1)) + DigitVal(z[Len(z)])

\* parseInt(s, 10)
ParseInt(s) ==
  LET t    == TrimLeft(s)
      neg  == t # <<>> /\ Head(t) = "-"
      body == IF t # <<>> /\ Head(t) \in {"-", "+"} THEN Tail(t) ELSE t
      z    == DigitPrefix(body)
      tz   == TrailingZeros(z)
      sig  == DigitsValue(SubSeq(z, 1, Len(z) - tz))
  IN IF z = <<>> THEN NumNaN
     ELSE IF sig = 0 THEN Num(0, 0)
     ELSE Num(IF neg THEN 0 - sig ELSE sig, tz)

\* Number::toString of a double: the string is represented by the double
\* its shortest round-trip decimal denotes
DoubleToString(x) == [lit |-> "num", v |-> x]

EmptyString == [lit |-> "empty", v |-> DNaN]

\* a string with no numeric prefix
TextString == [lit |-> "text", v |-> DNaN]

\* parseFloat(s)
ParseFloat(s) == IF s.lit = "num" THEN s.v ELSE DNaN

----------------------------------------------------------------------------
(* Persisted storage *)

Null == [null |-> TRUE]

Str(s) == [null |-> FALSE, s |-> s]

ThemeNames == {"light", "dark"}

\* mutant: the registry lists the dark theme first
FirstThemeDark == "dark"

\* Object.keys(this.theme.themes)[0]
FirstTheme == "light"

HueKey(t) == IF t = "light" THEN "light-accent-hue" ELSE "dark-accent-hue"

ModeKey == "mode"

ZoomKey == "zoom"

StorageKeys == {ModeKey, ZoomKey} \cup {HueKey(t) : t \in ThemeNames}

SetItem(st, key, s) == [st EXCEPT ![key] = Str(s)]

----------------------------------------------------------------------------
(* Themes *)

\* names every plain object inherits from Object.prototype
ObjectPrototypeKeys ==
  {"constructor", "toString", "toLocaleString", "valueOf", "hasOwnProperty",
   "isPrototypeOf", "propertyIsEnumerable", "__proto__"}

\* this.theme.themes[mode]: an own property (a Theme), an inherited
\* property (truthy, but no Theme), or undefined
ThemeLookup(m) ==
  IF m \in ThemeNames THEN [kind |-> "theme", name |-> m]
  ELSE IF m \in ObjectPrototypeKeys THEN [kind |-> "inherited", name |-> m]
  ELSE [kind |-> "undefined", name |-> ""]

BackgroundEffectColor(t) == IF t = "light" THEN 10197915 ELSE 2105376

AccentProp == "--theme-accent"

StyleProps ==
  {"--icon-filter", AccentProp, "--font-color", "--base-color",
   "--dark-accent", "--mid-accent", "--bright-accent"}

\* the fixed StyleProperty values of LightTheme and DarkTheme
StaticValue(t, p) ==
  IF t = "light"
    THEN CASE p = "--icon-filter"   -> "brightness(100%)"
           [] p = "--font-color"    -> "#292929"
           [] p = "--base-color"    -> "#f5f5f5"
           [] p = "--dark-accent"   -> "#9b9b9b"
           [] p = "--mid-accent"    -> "#efefef"
           [] p = "--bright-accent" -> "#ffffff"
    ELSE CASE p = "--icon-filter"   -> "brightness(250%)"
           [] p = "--font-color"    -> "#eaeaea"
           [] p = "--base-color"    -> "#454545"
           [] p = "--dark-accent"   -> "#3c3c3c"
           [] p = "--mid-accent"    -> "#484848"
           [] p = "--bright-accent" -> "#515151"

saturation == 100

lightness == 60

\* `hsl(${hue}, ${saturation}%, ${lightness}%)`
HslString(hue) ==
  <<"h", "s", "l", "(">> \o NumberToString(hue) \o <<",", " ">>
    \o NumberToString(Num(saturation, 0)) \o <<"%", ",", " ">>
    \o NumberToString(Num(lightness, 0)) \o <<"%", ")">>

\* new ThemeAccentProperty(property, hue) and ThemeAccentProperty.update(hue)
ThemeAccentProperty(hue) == [hue |-> hue, value |-> HslString(hue)]

\* Theme.getAccentHue()
GetAccentHue(st, t) ==
  LET stored == st[HueKey(t)]
  IN IF ~stored.null /\ stored.s # <<>> THEN ParseInt(stored.s) ELSE Num(0, 0)

\* the root style scope of a freshly loaded document
NoStyle == [p \in StyleProps |-> IF p = AccentProp THEN <<>> ELSE ""]

\* Theme.setProp(styleProp)
SetProp(sty, p, value) == [sty EXCEPT ![p] = value]

\* Theme.setStyleProperties()
SetStyleProperties(sty, t, accent) ==
  [p \in StyleProps |-> IF p = AccentProp THEN accent.value ELSE StaticValue(t, p)]

----------------------------------------------------------------------------
(* Background effect *)

effectDelay == 50

effectInterval == 10

\* 1.0 / this.effectInterval
SubtractionFactor == DFromTenths(10 \div effectInterval)

\* the opacity the style scope of the canvas reports after an assignment:
\* CSSOM serialises a <number> with at most six decimals
CssNumber(x) == DFromTenths(x.k)

OpacityUnset == [set |-> FALSE, v |-> Dbl(0, 0)]

\* window['VANTA'].WAVES(config)
NewHandle(color) == [color |-> color, opacity |-> OpacityUnset, destroyed |-> 0]

\* props['color'] || 0x00000
ConfigColor(color) == IF color # 0 THEN color ELSE 0

\* mutant: the old handle is dropped without destroy()
DestroyHandleSkipped(ins, h) == ins

\* handle.destroy()
DestroyHandle(ins, h) == [ins EXCEPT ![h].destroyed = @ + 1]

\* the body of one fade callback
FadeOpacity(o) ==
  IF ~o.set
    THEN [set |-> TRUE, v |-> CssNumber(DSub(DFromTenths(10), SubtractionFactor))]
    ELSE [set |-> TRUE, v |-> CssNumber(DSub(o.v, SubtractionFactor))]

\* the timers WavesEffect.destroyEffect schedules at time now, ids from first
FadeTimers(now, first) ==
  {[id |-> first + i - 1, due |-> now + effectDelay * i, kind |-> "fade"]
     : i \in 1..effectInterval}

\* mutant: the disposal is delayed by effectDelay only
DisposeTimerEarly(now, first) ==
  [id |-> first + effectInterval, due |-> now + effectDelay, kind |-> "dispose"]

DisposeTimer(now, first) ==
  [id |-> first + effectInterval, due |-> now + effectDelay * effectInterval,
   kind |-> "dispose"]

\* mutant: of two timers due together the one set last runs first
TimerBeforeLifo(t, u) == t.due < u.due \/ (t.due = u.due /\ t.id >= u.id)

\* the timer task queue runs t before u: earlier due time first, and of
\* two timers due together the one set first
TimerBefore(t, u) == t.due < u.due \/ (t.due = u.due /\ t.id <= u.id)

NextTimer(ts) == CHOOSE t \in ts : \A u \in ts : TimerBefore(t, u)

----------------------------------------------------------------------------
(* Zoom *)

ZoomDefault == 1

ZoomStep == DFromTenths(1)

ZoomMin == 1

ZoomMax == 2

DFromInt(n) == DFromTenths(10 * n)

----------------------------------------------------------------------------
(* State *)

VARIABLES
  localStorage,    \* window.localStorage: key -> Null or Str(string)
  style,           \* document.documentElement.style: property -> value
  instances,       \* the effect handles VANTA.WAVES has returned to this page
  timers,          \* pending setTimeout callbacks
  timerSeq,        \* number of timers set so far
  clock,           \* time, in ms, at which the last timer callback ran
  constructed,     \* the AppTheme constructor returned normally
  mode,            \* AppTheme.effect.mode
  selected,        \* AppTheme.theme.selected
  themeAccent,     \* themes[t].themeAccent, for each registered theme t
  effectSelected,  \* AppTheme.effect.selected is present
  wavesEffect,     \* WavesEffect.effect: a handle (index in instances) or 0
  factor,          \* AppTheme.zoom.factor
  lastOp,          \* the last call made: name, argument, whether it threw
  postActionCalls, \* number of calls of the postAction given to destroyEffect
  fadeSteps,       \* number of fade callbacks that have run
  timerFault       \* some timer callback threw

vars ==
  <<localStorage, style, instances, timers, timerSeq, clock, constructed, mode,
    selected, themeAccent, effectSelected, wavesEffect, factor, lastOp,
    postActionCalls, fadeSteps, timerFault>>

----------------------------------------------------------------------------
(* Inputs *)

\* largest number of effect handles created on one page
MaxInstances == 3

ModeInputs == {"light", "dark", "blue", "toString"}

HueInputs == {Num(0, 0), Num(0 - 12, 0), Num(120, 0), Num(1, MaxPlainDigits)}

\* contents of storage at page load: [mode, zoom, light hue, dark hue]
Storage(m, z, hl, hd) ==
  [key \in StorageKeys |->
     IF key = ModeKey THEN m ELSE IF key = ZoomKey THEN z
     ELSE IF key = HueKey("light") THEN hl ELSE hd]

StoredModes == {Null, Str(""), Str("light"), Str("dark"), Str("blue")}

StoredZooms ==
  {Null, Str(EmptyString), Str(TextString)}
    \cup {Str(DoubleToString(DFromTenths(k))) : k \in {5, 10, 15, 20, 50}}

StoredHues == {Null, Str(<<"4", "5">>), Str(<<"a", "b", "c">>)}

InitialStorages ==
  {Storage(m, z, hl, hd) :
     m \in StoredModes, z \in StoredZooms, hl \in StoredHues, hd \in StoredHues}

Op(name, arg, threw) == [op |-> name, arg |-> arg, threw |-> threw]

----------------------------------------------------------------------------
(* AppTheme *)

\* field initialisers and constructor of AppTheme over storage st; ok is
\* FALSE when the constructor throws
NewAppTheme(st) ==
  LET accents    == [t \in ThemeNames |-> ThemeAccentProperty(GetAccentHue(st, t))]
      storedMode == st[ModeKey]
      m          == IF ~storedMode.null /\ storedMode.s # ""
                      THEN storedMode.s ELSE FirstTheme
      sel        == ThemeLookup(m)
      zoomFactor == st[ZoomKey]
      f          == IF ~zoomFactor.null /\ zoomFactor.s.lit # "empty"
                      THEN ParseFloat(zoomFactor.s) ELSE DFromInt(ZoomDefault)
  IN IF sel.kind = "theme"
       THEN [ok |-> TRUE, mode |-> m, selected |-> sel, themeAccent |-> accents,
             style |-> SetStyleProperties(NoStyle, sel.name, accents[sel.name]),
             instances |-> <<NewHandle(ConfigColor(BackgroundEffectColor(sel.name)))>>,
             wavesEffect |-> 1, factor |-> f]
       ELSE [ok |-> FALSE, mode |-> m, selected |-> sel, themeAccent |-> accents,
             style |-> NoStyle, instances |-> <<>>, wavesEffect |-> 0,
             factor |-> DFromInt(ZoomDefault)]

\* mutant: the effect counts as active whatever effect.selected holds
IsEffectActiveAlways == TRUE

\* AppTheme.isEffectActive()
IsEffectActive == effectSelected

\* AppTheme.getMode()
GetMode == mode

\* AppTheme.getZoomFactor()
GetZoomFactor == factor

\* AppTheme.getThemeAccentHue()
GetThemeAccentHue == GetAccentHue(localStorage, selected.name)

\* the page has loaded over one of the storages S
InitOver(S) ==
  \E st \in S :
    LET a == NewAppTheme(st)
    IN /\ localStorage = st
       /\ style = a.style
       /\ instances = a.instances
       /\ timers = {}
       /\ timerSeq = 0
       /\ clock = 0
       /\ constructed = a.ok
       /\ mode = a.mode
       /\ selected = a.selected
       /\ themeAccent = a.themeAccent
       /\ effectSelected = TRUE
       /\ wavesEffect = a.wavesEffect
       /\ factor = a.factor
       /\ lastOp = Op("new AppTheme", "", ~a.ok)
       /\ postActionCalls = 0
       /\ fadeSteps = 0
       /\ timerFault = FALSE

\* the page is loaded again: a new document, no timers, a new AppTheme
\* over the storage the previous page left
Reload ==
  LET a == NewAppTheme(localStorage)
  IN /\ style' = a.style
     /\ instances' = a.instances
     /\ timers' = {}
     /\ timerSeq' = 0
     /\ clock' = 0
     /\ constructed' = a.ok
     /\ mode' = a.mode
     /\ selected' = a.selected
     /\ themeAccent' = a.themeAccent
     /\ effectSelected' = TRUE
     /\ wavesEffect' = a.wavesEffect
     /\ factor' = a.factor
     /\ lastOp' = Op("new AppTheme", "", ~a.ok)
     /\ postActionCalls' = 0
     /\ fadeSteps' = 0
     /\ timerFault' = FALSE
     /\ UNCHANGED localStorage

\* AppTheme.setTheme(mode)
SetTheme(m) ==
  LET newTheme == ThemeLookup(m)
      applied  == SetStyleProperties(style, m, themeAccent[m])
      color    == ConfigColor(BackgroundEffectColor(m))
  IN /\ constructed
     /\ IF newTheme.kind = "undefined"
          THEN /\ lastOp' = Op("setTheme", m, FALSE)
               /\ UNCHANGED <<mode, selected, style, instances, wavesEffect,
                              localStorage>>
        ELSE IF newTheme.kind # "theme"
          \* newTheme.setStyleProperties is not a function
          THEN /\ mode' = m
               /\ selected' = newTheme
               /\ lastOp' = Op("setTheme", m, TRUE)
               /\ UNCHANGED <<style, instances, wavesEffect, localStorage>>
        ELSE IF IsEffectActive /\ wavesEffect = 0
          \* this.effect.selected.effect is undefined
          THEN /\ mode' = m
               /\ selected' = newTheme
               /\ style' = applied
               /\ lastOp' = Op("setTheme", m, TRUE)
               /\ UNCHANGED <<instances, wavesEffect, localStorage>>
        ELSE /\ IsEffectActive => Len(instances) < MaxInstances
             /\ mode' = m
             /\ selected' = newTheme
             /\ style' = applied
             /\ IF IsEffectActive
                  THEN /\ instances' =
                            Append(DestroyHandle(instances, wavesEffect), NewHandle(color))
                       /\ wavesEffect' = Len(instances) + 1
                  ELSE UNCHANGED <<instances, wavesEffect>>
             /\ localStorage' = SetItem(localStorage, ModeKey, m)
             /\ lastOp' = Op("setTheme", m, FALSE)
     /\ UNCHANGED <<timers, timerSeq, clock, constructed, themeAccent,
                    effectSelected, factor, postActionCalls, fadeSteps, timerFault>>

\* AppTheme.setThemeAccentHue(hue) -> Theme.setAccentHue(hue)
SetThemeAccentHue(hue) ==
  /\ constructed
  /\ IF selected.kind # "theme"
       \* this.theme.selected.setAccentHue is not a function
       THEN /\ lastOp' = Op("setThemeAccentHue", hue, TRUE)
            /\ UNCHANGED <<themeAccent, style, localStorage>>
       ELSE /\ themeAccent' =
                 [themeAccent EXCEPT ![selected.name] = ThemeAccentProperty(hue)]
            /\ style' = SetProp(style, AccentProp, themeAccent'[selected.name].value)
            /\ localStorage' =
                 SetItem(localStorage, HueKey(selected.name), NumberToString(hue))
            /\ lastOp' = Op("setThemeAccentHue", hue, FALSE)
  /\ UNCHANGED <<instances, timers, timerSeq, clock, constructed, mode, selected,
                 effectSelected, wavesEffect, factor, postActionCalls, fadeSteps,
                 timerFault>>

\* mutant: zoomIn tests factor <= max
ZoomInInclusive ==
  /\ constructed
  /\ IF DLess(factor, DFromInt(ZoomMax)) \/ factor = DFromInt(ZoomMax)
       THEN /\ factor' = DAdd(factor, ZoomStep)
            /\ localStorage' = SetItem(localStorage, ZoomKey, DoubleToString(factor'))
       ELSE UNCHANGED <<factor, localStorage>>
  /\ lastOp' = Op("zoomIn", "", FALSE)
  /\ UNCHANGED <<style, instances, timers, timerSeq, clock, constructed, mode,
                 selected, themeAccent, effectSelected, wavesEffect,
                 postActionCalls, fadeSteps, timerFault>>

\* AppTheme.zoomIn()
ZoomIn ==
  /\ constructed
  /\ IF DLess(factor, DFromInt(ZoomMax))
       THEN /\ factor' = DAdd(factor, ZoomStep)
            /\ localStorage' = SetItem(localStorage, ZoomKey, DoubleToString(factor'))
       ELSE UNCHANGED <<factor, localStorage>>
  /\ lastOp' = Op("zoomIn", "", FALSE)
  /\ UNCHANGED <<style, instances, timers, timerSeq, clock, constructed, mode,
                 selected, themeAccent, effectSelected, wavesEffect,
                 postActionCalls, fadeSteps, timerFault>>

\* AppTheme.zoomOut()
ZoomOut ==
  /\ constructed
  /\ IF DLess(DFromInt(ZoomMin), factor)
       THEN /\ factor' = DSub(factor, ZoomStep)
            /\ localStorage' = SetItem(localStorage, ZoomKey, DoubleToString(factor'))
       ELSE UNCHANGED <<factor, localStorage>>
  /\ lastOp' = Op("zoomOut", "", FALSE)
  /\ UNCHANGED <<style, instances, timers, timerSeq, clock, constructed, mode,
                 selected, themeAccent, effectSelected, wavesEffect,
                 postActionCalls, fadeSteps, timerFault>>

\* AppTheme.destroyEffect(postAction) -> WavesEffect.destroyEffect(postAction)
DestroyEffect ==
  /\ constructed
  /\ IF ~effectSelected
       \* this.effect.selected is undefined
       THEN /\ lastOp' = Op("destroyEffect", "", TRUE)
            /\ UNCHANGED <<timers, timerSeq, effectSelected>>
       ELSE /\ timers' = timers \cup FadeTimers(clock, timerSeq + 1)
                                \cup {DisposeTimer(clock, timerSeq + 1)}
            /\ timerSeq' = timerSeq + effectInterval + 1
            /\ effectSelected' = FALSE
            /\ lastOp' = Op("destroyEffect", "", FALSE)
  /\ UNCHANGED <<localStorage, style, instances, clock, constructed, mode, selected,
                 themeAccent, wavesEffect, factor, postActionCalls, fadeSteps,
                 timerFault>>

\* the next timer callback is a fade step of WavesEffect.destroyEffect
FadeStep ==
  /\ timers # {}
  /\ LET t == NextTimer(timers)
     IN /\ t.kind = "fade"
        /\ timers' = timers \ {t}
        /\ clock' = IF t.due > clock THEN t.due ELSE clock
        /\ fadeSteps' = fadeSteps + 1
        /\ IF wavesEffect = 0
             \* this.effect is undefined
             THEN /\ timerFault' = TRUE
                  /\ UNCHANGED instances
             ELSE /\ instances' =
                       [instances EXCEPT ![wavesEffect].opacity = FadeOpacity(@)]
                  /\ UNCHANGED timerFault
  /\ lastOp' = Op("fade", "", wavesEffect = 0)
  /\ UNCHANGED <<localStorage, style, timerSeq, constructed, mode, selected,
                 themeAccent, effectSelected, wavesEffect, factor, postActionCalls>>

\* the next timer callback is the disposal of WavesEffect.destroyEffect
DisposeStep ==
  /\ timers # {}
  /\ LET t == NextTimer(timers)
     IN /\ t.kind = "dispose"
        /\ timers' = timers \ {t}
        /\ clock' = IF t.due > clock THEN t.due ELSE clock
        /\ IF wavesEffect = 0
             \* this.effect is undefined
             THEN /\ timerFault' = TRUE
                  /\ UNCHANGED <<instances, wavesEffect, postActionCalls>>
             ELSE /\ instances' = DestroyHandle(instances, wavesEffect)
                  /\ wavesEffect' = 0
                  /\ postActionCalls' = postActionCalls + 1
                  /\ UNCHANGED timerFault
  /\ lastOp' = Op("dispose", "", wavesEffect = 0)
  /\ UNCHANGED <<localStorage, style, timerSeq, constructed, mode, selected,
                 themeAccent, effectSelected, factor, fadeSteps>>

Init == InitOver(InitialStorages)

Next ==
  \/ \E m \in ModeInputs : SetTheme(m)
  \/ \E hue \in HueInputs : SetThemeAccentHue(hue)
  \/ ZoomIn
  \/ ZoomOut
  \/ DestroyEffect
  \/ FadeStep
  \/ DisposeStep
  \/ Reload

Spec == Init /\ [][Next]_vars

----------------------------------------------------------------------------
(* Spec is the whole machine.  Its operations fall into groups that share  *)
(* no state but the page itself: the zoom calls read and write only       *)
(* factor and the zoom entry, the accent calls only themeAccent, the      *)
(* accent style and the hue entries, the timers only the effect handles.  *)
(* Each group has a specification of its own, over the storages that      *)
(* matter to it.                                                          *)

InitZoom ==
  InitOver({Storage(Null, z, Null, Null) : z \in StoredZooms})

NextZoom == ZoomIn \/ ZoomOut \/ Reload

SpecZoom == InitZoom /\ [][NextZoom]_vars

\* the zoom entry is absent or holds a factor within [min, max]
InitZoomInRange ==
  InitOver({Storage(Null, z, Null, Null) :
              z \in {Null} \cup {Str(DoubleToString(DFromTenths(k))) : k \in 10..20}})

SpecZoomInRange == InitZoomInRange /\ [][NextZoom]_vars

InitTheme ==
  InitOver({Storage(m, z, hl, Null) :
              m \in StoredModes, z \in {Null, Str(TextString)}, hl \in StoredHues})

NextTheme ==
  \/ \E m \in ModeInputs : SetTheme(m)
  \/ \E hue \in HueInputs : SetThemeAccentHue(hue)
  \/ Reload

SpecTheme == InitTheme /\ [][NextTheme]_vars

InitEffect ==
  InitOver({Storage(m, Null, Null, Null) : m \in {Null, Str("light"), Str("dark")}})

NextEffect ==
  \/ \E m \in ModeInputs : SetTheme(m)
  \/ DestroyEffect
  \/ FadeStep
  \/ DisposeStep
  \/ Reload

SpecEffect == InitEffect /\ [][NextEffect]_vars

----------------------------------------------------------------------------
(* Properties *)

LiveHandles == {i \in 1..Len(instances) : instances[i].destroyed = 0}

\* AppTheme.destroyEffect has been called on this page
DestroyCalled == timerSeq > 0

\* C1: the postAction given to destroyEffect is invoked at most once, only
\* after all effectInterval fade callbacks have run, and exactly once by
\* the time every scheduled callback has fired.
PostActionOnceAfterFade ==
  /\ postActionCalls <= 1
  /\ postActionCalls = 1 => fadeSteps = effectInterval
  /\ (DestroyCalled /\ timers = {}) => postActionCalls = 1

PostActionInvoked ==
  lastOp.op = "dispose" /\ postActionCalls = 1 /\ fadeSteps = effectInterval

\* C2: the zoom factor is a number within [min, max] after startup and after
\* every zoomIn / zoomOut.
ZoomFactorWithinBounds ==
  constructed =>
    /\ ~factor.nan
    /\ ~DLess(factor, DFromInt(ZoomMin))
    /\ ~DLess(DFromInt(ZoomMax), factor)

\* C3: setTheme with a mode that is no registered theme name changes none of
\* mode, selected theme, applied style variables, persisted mode entry and
\* effect instance.
UnknownModeIgnored ==
  [][(lastOp'.op = "setTheme" /\ lastOp'.arg \notin ThemeNames) =>
       /\ mode' = mode
       /\ selected' = selected
       /\ style' = style
       /\ localStorage'[ModeKey] = localStorage[ModeKey]
       /\ instances' = instances
       /\ wavesEffect' = wavesEffect]_vars

InvalidMode(v) == ~v.null /\ v.s \notin ThemeNames

InvalidZoom(v) == ~v.null /\ ParseFloat(v.s).nan

\* C4: construction never throws; an invalid persisted mode yields the first
\* registered theme (light), an invalid persisted zoom yields factor 1.
StartupFallsBackToDefaults ==
  lastOp.op = "new AppTheme" =>
    /\ constructed
    /\ InvalidMode(localStorage[ModeKey]) =>
         mode = "light" /\ selected = ThemeLookup("light")
    /\ InvalidZoom(localStorage[ZoomKey]) => factor = DFromTenths(10)

\* C5: a setTheme with a registered mode disposes the current handle at once
\* (no fade, no timer) and creates a handle tinted for the new theme exactly
\* when the effect is active; after destroyEffect has been called, fading or
\* not, no setTheme creates or disposes a handle.
SetThemeRecreatesIffActive ==
  [][(lastOp'.op = "setTheme" /\ ~lastOp'.threw /\ lastOp'.arg \in ThemeNames) =>
       /\ effectSelected =>
            /\ Len(instances') = Len(instances) + 1
            /\ wavesEffect' = Len(instances')
            /\ instances'[wavesEffect'] =
                 NewHandle(BackgroundEffectColor(lastOp'.arg))
            /\ instances'[wavesEffect].destroyed = instances[wavesEffect].destroyed + 1
            /\ instances'[wavesEffect].opacity = instances[wavesEffect].opacity
            /\ timers' = timers
       /\ ~effectSelected => instances' = instances /\ wavesEffect' = wavesEffect
       /\ DestroyCalled => instances' = instances /\ wavesEffect' = wavesEffect]_vars

\* a setTheme made while the fade is running, on a page where an earlier
\* setTheme had replaced the handle
SetThemeDuringFade ==
  /\ lastOp.op = "setTheme" /\ lastOp.arg \in ThemeNames
  /\ timers # {} /\ fadeSteps > 0
  /\ Len(instances) >= 2

\* C6: after setThemeAccentHue(h) a fresh AppTheme over the same storage has
\* hue h and the same colour string for the selected theme, and
\* getThemeAccentHue() returns h.
AccentHueRoundTrip ==
  (lastOp.op = "setThemeAccentHue" /\ ~lastOp.threw) =>
    LET fresh == NewAppTheme(localStorage).themeAccent[selected.name]
    IN /\ fresh.hue = lastOp.arg
       /\ fresh.value = themeAccent[selected.name].value
       /\ GetThemeAccentHue = lastOp.arg

StartupDefaultsState ==
  (lastOp.op = "new AppTheme" /\ localStorage[ModeKey].null
     /\ localStorage[ZoomKey].null) =>
    /\ constructed
    /\ GetMode = "light"
    /\ selected = ThemeLookup("light")
    /\ GetZoomFactor = DFromTenths(10)
    /\ style = SetStyleProperties(NoStyle, "light", themeAccent["light"])
    /\ instances = <<NewHandle(BackgroundEffectColor("light"))>>
    /\ wavesEffect = 1
    /\ IsEffectActive

\* C7: with no mode and no zoom entry persisted, startup yields mode light,
\* factor 1, the light theme's variables applied and one effect handle with
\* the light tint, and construction writes nothing to storage.
StartupDefaults ==
  /\ []StartupDefaultsState
  /\ [][lastOp'.op = "new AppTheme" => localStorage' = localStorage]_vars

StartedWithoutEntries ==
  /\ lastOp.op = "new AppTheme" /\ constructed
  /\ localStorage[ModeKey].null /\ localStorage[ZoomKey].null

\* C8: zoomIn with the factor at (or beyond) max and zoomOut with the factor
\* at (or beyond) min change neither the factor nor storage; a zoomIn /
\* zoomOut that changes the factor moves it by one step, factor + step or
\* factor - step as double arithmetic evaluates it, and leaves the zoom entry
\* denoting the new factor.
ZoomStepOrNothing ==
  [][/\ lastOp'.op = "zoomIn" =>
          /\ (~factor.nan /\ ~DLess(factor, DFromInt(ZoomMax))) =>
               factor' = factor /\ localStorage' = localStorage
          /\ factor' # factor =>
               /\ factor' = DAdd(factor, ZoomStep)
               /\ ~localStorage'[ZoomKey].null
               /\ ParseFloat(localStorage'[ZoomKey].s) = factor'
     /\ lastOp'.op = "zoomOut" =>
          /\ (~factor.nan /\ ~DLess(DFromInt(ZoomMin), factor)) =>
               factor' = factor /\ localStorage' = localStorage
          /\ factor' # factor =>
               /\ factor' = DSub(factor, ZoomStep)
               /\ ~localStorage'[ZoomKey].null
               /\ ParseFloat(localStorage'[ZoomKey].s) = factor']_vars

\* zoomIn was called with the factor exactly at max
ZoomInAtMax ==
  /\ lastOp.op = "zoomIn"
  /\ factor = DFromInt(ZoomMax)
  /\ localStorage[ZoomKey] = Str(DoubleToString(DFromInt(ZoomMax)))

\* C9: the fade callbacks run in order of their delays, each lowering the
\* opacity by 1/effectInterval; the disposal runs after the last of them and
\* finds opacity zero; no callback finds the handle deleted.
FadeThenDispose ==
  /\ ~timerFault
  /\ \A t \in timers : t.due >= clock
  /\ lastOp.op = "fade" => clock = effectDelay * fadeSteps
  /\ (DestroyCalled /\ wavesEffect # 0) =>
       instances[wavesEffect].opacity =
         IF fadeSteps = 0 THEN OpacityUnset
         ELSE [set |-> TRUE,
               v |-> DFromTenths((effectInterval - fadeSteps) * (10 \div effectInterval))]
  /\ lastOp.op = "dispose" =>
       /\ fadeSteps = effectInterval
       /\ wavesEffect = 0
       /\ instances[Len(instances)].opacity = [set |-> TRUE, v |-> Dbl(0, 0)]
       /\ instances[Len(instances)].destroyed = 1

FadedAndDisposed ==
  /\ lastOp.op = "dispose" /\ timers = {}
  /\ instances[Len(instances)].opacity.set
  /\ instances[Len(instances)].destroyed = 1

\* C10: at most one handle exists that has been created and not destroyed,
\* and no handle is destroyed twice.
AtMostOneLiveHandle ==
  /\ Cardinality(LiveHandles) <= 1
  /\ \A i \in 1..Len(instances) : instances[i].destroyed <= 1

AllHandlesDisposed ==
  /\ lastOp.op = "dispose"
  /\ Len(instances) >= 2
  /\ LiveHandles = {}

====
